---- MODULE Spec2Model ----
(***************************************************************************)
(* Model of smartvestor: FinancialPerson (income figures), Smartvestor     *)
(* (budget, emergency fund, savings horizons, house timeline) and          *)
(* MortgageCalculator (borrowing limits, amortization breakdown).          *)
(*                                                                         *)
(* Representation of numbers.  The program computes with IEEE doubles.     *)
(* Here every amount of money is an integer number of cents (1/100 CZK)    *)
(* and every rate is an integer number of percent or per mille; the inputs *)
(* are chosen so that the planner's products are exact in cents, and the   *)
(* amortization engine rounds each product and quotient to the nearest     *)
(* cent.  The float NaN is the distinguished value NaN, which every        *)
(* arithmetic operator propagates and every comparison answers FALSE on.   *)
(***************************************************************************)
EXTENDS Integers, Sequences, FiniteSets, TLC

\* ------------------------------------------------------------------ bounds
\* largest number of iterations of a savings loop that the model follows
MaxMonths == 90
\* largest loan term, in months (loan_term * 12)
MaxLoanTerm == 5

\* ------------------------------------------------------------- arithmetic
\* an amount of CZK in cents
CZK(x) == x * 100

NaN == 0 - 2000000000

IsNaN(x) == x = NaN

\* float addition, subtraction and the comparisons, NaN-aware
FAdd(a, b) == IF IsNaN(a) \/ IsNaN(b) THEN NaN ELSE a + b
FSub(a, b) == IF IsNaN(a) \/ IsNaN(b) THEN NaN ELSE a - b
FLt(a, b) == ~IsNaN(a) /\ ~IsNaN(b) /\ a < b
FLe(a, b) == ~IsNaN(a) /\ ~IsNaN(b) /\ a <= b
FEq(a, b) == ~IsNaN(a) /\ ~IsNaN(b) /\ a = b

\* round(x / d) as Python rounds a float: to the nearest integer, ties to even
RoundHalfEven(x, d) ==
    LET q == x \div d
        r == x % d
    IN  IF 2 * r < d THEN q
        ELSE IF 2 * r > d THEN q + 1
        ELSE IF q % 2 = 0 THEN q ELSE q + 1

\* x * num / den rounded to the nearest unit, without forming x * num
MulDiv(x, num, den) ==
    LET q == x \div den
        r == x % den
    IN  q * num + RoundHalfEven(r * num, den)

\* float product of an amount and a ratio num/den
FMul(x, num, den) == IF IsNaN(x) THEN NaN ELSE MulDiv(x, num, den)

RECURSIVE Pow(_, _)
Pow(b, n) == IF n = 0 THEN 1 ELSE b * Pow(b, n - 1)

RECURSIVE GCD(_, _)
GCD(a, b) == IF b = 0 THEN a ELSE GCD(b, a % b)

\* ------------------------------------------------------------ enumerations
HOUSING == "housing"
GROCERIES == "groceries"
SAVINGS_AND_INVESTMENTS == "savings_and_investments"
LEISUER == "leisure"
BudgetCategories == {HOUSING, GROCERIES, SAVINGS_AND_INVESTMENTS, LEISUER}

MORTGAGE == "mortgage"
CASH == "cash"
HouseStrategies == <<MORTGAGE, CASH>>

\* ---------------------------------------------------------- FinancialPerson
\* rates in per mille, the monthly discount in CZK
IncomeTaxPerMille == 150
SocialSecurityPerMille == 65
HealthCarePerMille == 45
TaxPayerMonthlyDiscount == 2570

\* gross salary in CZK, yearly bonus in percent, savings in CZK
Ages == {34, 35}
GrossSalaries == {0 - 10000, 0, 50, 100, 110000, 110500}
YearlyBonuses == {0, 10}
Savings == {0, 4000, 130000}

Persons == [age : Ages, gross_salary : GrossSalaries,
            yearly_bonus : YearlyBonuses, savings : Savings]

\* the monthly discount of the tax payer is left out
net_monthly_salary_no_discount(p) ==
    LET income_tax == (p.gross_salary * IncomeTaxPerMille) \div 10
        social_security == (p.gross_salary * SocialSecurityPerMille) \div 10
        health_care == (p.gross_salary * HealthCarePerMille) \div 10
        deductions == income_tax + social_security + health_care
    IN  CZK(p.gross_salary) - deductions

\* all in cents
net_monthly_salary(p) ==
    LET income_tax == (p.gross_salary * IncomeTaxPerMille) \div 10
        social_security == (p.gross_salary * SocialSecurityPerMille) \div 10
        health_care == (p.gross_salary * HealthCarePerMille) \div 10
        deductions == income_tax + social_security + health_care
    IN  CZK(p.gross_salary) - deductions + CZK(TaxPayerMonthlyDiscount)

annual_bonus(p) == (12 * p.gross_salary) * p.yearly_bonus

net_annual_income(p) == net_monthly_salary(p) * 12 + annual_bonus(p)

net_monthly_income(p) == net_annual_income(p) \div 12

\* -------------------------------------------------------------- call inputs
\* property prices and rents in CZK, down payment fractions in percent
PropertyPrices == {7965, 39995, 60000}
DownPaymentPercentages == {10, 20}
Rents == {0, 500, 30000}
Strategies == {MORTGAGE, CASH, "INVALID"}

\* ------------------------------------------------------------------- state
VARIABLES
    person,           \* the FinancialPerson
    planner,          \* "none", "ok" (Smartvestor constructed) or "failed"
    budgeting,        \* Smartvestor.__budgeting, in percent
    monthly_budget,   \* Smartvestor._monthly_budget, in cents
    emergency_fund,   \* Smartvestor._emergency_fund, in cents
    pc,               \* the function whose body is executing, or "idle"
    caller,           \* "house_timeline" while it runs a savings horizon
    call,             \* the arguments of the outermost running or last call
    target,           \* down_payment / property_price of a savings loop, cents
    amount_saved,     \* cents
    monthly_saving,   \* cents
    months_to_save,
    ret,              \* value returned by the last call (see each operation)
    raised,           \* exception raised by the last call, or "none"
    raised_msg,       \* the strategies listed in the ValueError message
    years_to_save,    \* house_timeline local
    total_cost,       \* house_timeline local
    printed,          \* lines printed by the running or last call
    limits,           \* the borrowing limits obtained so far, cents
    principal,        \* mortgage_breakdown locals, amounts in cents
    total_payments,
    monthly_interest_rate,
    monthly_payment_value,
    insurance_payment_value,
    month,            \* the next value of the range iterator
    months_to_payoff,
    remaining_balance,
    schedule,         \* the six lists of mortgage_breakdown, row by row
    df                \* the DataFrame returned by mortgage_breakdown

planner_vars == <<person, planner, budgeting, monthly_budget, emergency_fund>>
loop_vars == <<target, amount_saved, monthly_saving, months_to_save>>
out_vars == <<ret, raised, raised_msg, years_to_save, total_cost, printed>>
mb_vars == <<principal, total_payments, monthly_interest_rate,
             monthly_payment_value, insurance_payment_value, month,
             remaining_balance, schedule>>
vars == <<planner_vars, pc, caller, call, loop_vars, out_vars, limits,
          mb_vars, months_to_payoff, df>>

NoCall == [op |-> "none", property_price |-> 0, down_payment_percentage |-> 0,
           current_rent |-> 0, strategy |-> "none", interest_rate |-> 0,
           loan_term |-> 0, with_insurance |-> FALSE,
           monthly_extra_payment |-> 0]
NoLimits == [max_debt |-> 0 - 1, max_loan_value |-> 0 - 1, property_price |-> 0]
NoRate == [num |-> 0, den |-> 1]
NoBudget == [c \in BudgetCategories |-> 0]

Init ==
    /\ person \in Persons
    /\ planner = "none"
    /\ budgeting = NoBudget
    /\ monthly_budget = NoBudget
    /\ emergency_fund = 0
    /\ pc = "idle"
    /\ caller = "none"
    /\ call = NoCall
    /\ target = 0
    /\ amount_saved = 0
    /\ monthly_saving = 0
    /\ months_to_save = 0
    /\ ret = 0
    /\ raised = "none"
    /\ raised_msg = <<>>
    /\ years_to_save = 0
    /\ total_cost = 0
    /\ printed = <<>>
    /\ limits = NoLimits
    /\ principal = 0
    /\ total_payments = 0
    /\ monthly_interest_rate = NoRate
    /\ monthly_payment_value = 0
    /\ insurance_payment_value = 0
    /\ month = 0
    /\ months_to_payoff = 0
    /\ remaining_balance = 0
    /\ schedule = <<>>
    /\ df = <<>>

\* every call starts with no result, no exception and nothing printed
ClearOut ==
    /\ ret' = 0
    /\ raised' = "none"
    /\ raised_msg' = <<>>
    /\ years_to_save' = 0
    /\ total_cost' = 0
    /\ printed' = <<>>
    /\ months_to_payoff' = 0
    /\ df' = <<>>

\* the locals of a savings loop are gone when it returns
ClearLoop ==
    /\ target' = 0
    /\ amount_saved' = 0
    /\ monthly_saving' = 0
    /\ months_to_save' = 0

\* -------------------------------------------------------------- Smartvestor
Budgeting(p) ==
    (HOUSING :> 30) @@
    (GROCERIES :> IF p.gross_salary <= 110000 THEN 20 ELSE 15) @@
    (SAVINGS_AND_INVESTMENTS :> IF p.gross_salary <= 110000 THEN 30 ELSE 35) @@
    (LEISUER :> 20)

\* round(budgeting[category] * net_monthly_income), as cents
salary_slice(b, p, category) ==
    CZK(RoundHalfEven(b[category] * net_monthly_income(p), 100 * CZK(1)))

define_budget(b, p) == [c \in BudgetCategories |-> salary_slice(b, p, c)]

BudgetSum(budget) ==
    budget[HOUSING] + budget[GROCERIES]
        + budget[SAVINGS_AND_INVESTMENTS] + budget[LEISUER]

\* the assertion of define_budget
BudgetAssertion(budget, p) ==
    BudgetSum(budget) = CZK(RoundHalfEven(net_monthly_income(p), CZK(1)))

EmergencyFund(budget) == 3 * (budget[HOUSING] + budget[GROCERIES])

\* Smartvestor.__init__
Construct ==
    /\ pc = "idle"
    /\ planner = "none"
    /\ call' = [NoCall EXCEPT !.op = "__init__"]
    /\ budgeting' = Budgeting(person)
    /\ LET budget == define_budget(Budgeting(person), person)
       IN  IF BudgetAssertion(budget, person)
           THEN /\ planner' = "ok"
                /\ monthly_budget' = budget
                /\ emergency_fund' = EmergencyFund(budget)
                /\ raised' = "none"
           ELSE /\ planner' = "failed"
                /\ raised' = "AssertionError"
                /\ UNCHANGED <<monthly_budget, emergency_fund>>
    /\ ret' = 0
    /\ raised_msg' = <<>>
    /\ years_to_save' = 0
    /\ total_cost' = 0
    /\ printed' = <<>>
    /\ months_to_payoff' = 0
    /\ df' = <<>>
    /\ UNCHANGED <<person, pc, caller, loop_vars, limits, mb_vars>>

\* np.multiply(property_price, down_payment_percentage), cents
DownPayment(property_price, down_payment_percentage) ==
    (CZK(property_price) * down_payment_percentage) \div 100

\* the savings amount of the rounded monthly budget instead
MonthlySavingRounded(b, p) == salary_slice(b, p, SAVINGS_AND_INVESTMENTS)

\* np.multiply(budgeting[savings_and_investments], net_monthly_income), cents
MonthlySaving(b, p) ==
    (b[SAVINGS_AND_INVESTMENTS] * net_monthly_income(p)) \div 100

\* housing budget left over after the rent, cents
MonthlyPostHousing(b, p, current_rent) ==
    (b[HOUSING] * net_monthly_income(p)) \div 100 - CZK(current_rent)

\* the housing left-over is added whatever its sign
CashMonthlySavingAlwaysAdds(b, p, current_rent) ==
    MonthlySaving(b, p) + MonthlyPostHousing(b, p, current_rent)

\* monthly saving of cash_house
CashMonthlySaving(b, p, current_rent) ==
    IF MonthlyPostHousing(b, p, current_rent) > 0
    THEN MonthlySaving(b, p) + MonthlyPostHousing(b, p, current_rent)
    ELSE MonthlySaving(b, p)

\* the loop condition of both savings loops
StillSaving(saved, goal) == saved < goal

\* the locals of mortgage_preparation before its loop
EnterMortgagePreparation(property_price, down_payment_percentage) ==
    /\ target' = DownPayment(property_price, down_payment_percentage)
    /\ amount_saved' = CZK(person.savings) - emergency_fund
    /\ monthly_saving' = MonthlySaving(budgeting, person)
    /\ months_to_save' = 0
    /\ pc' = "mortgage_preparation"

\* the locals of cash_house before its loop
EnterCashHouse(current_rent, property_price) ==
    /\ target' = CZK(property_price)
    /\ amount_saved' = CZK(person.savings) - emergency_fund
    /\ monthly_saving' = CashMonthlySaving(budgeting, person, current_rent)
    /\ months_to_save' = 0
    /\ pc' = "cash_house"

\* a call of mortgage_preparation from outside
MortgagePreparation ==
    /\ pc = "idle"
    /\ planner = "ok"
    /\ \E property_price \in PropertyPrices,
          down_payment_percentage \in DownPaymentPercentages :
          /\ call' = [NoCall EXCEPT !.op = "mortgage_preparation",
                         !.property_price = property_price,
                         !.down_payment_percentage = down_payment_percentage]
          /\ EnterMortgagePreparation(property_price, down_payment_percentage)
    /\ caller' = "none"
    /\ ClearOut
    /\ UNCHANGED <<planner_vars, limits, mb_vars>>

\* one iteration of the while loop of mortgage_preparation
MortgagePreparationLoop ==
    /\ pc = "mortgage_preparation"
    /\ StillSaving(amount_saved, target)
    /\ months_to_save < MaxMonths
    /\ amount_saved' = amount_saved + monthly_saving
    /\ months_to_save' = months_to_save + 1
    /\ UNCHANGED <<planner_vars, pc, caller, call, target, monthly_saving,
                   out_vars, limits, mb_vars, months_to_payoff, df>>

\* return months_to_save / 12 (ret counts twelfths of a year)
MortgagePreparationReturn ==
    /\ pc = "mortgage_preparation"
    /\ caller = "none"
    /\ ~StillSaving(amount_saved, target)
    /\ ret' = months_to_save
    /\ pc' = "idle"
    /\ ClearLoop
    /\ UNCHANGED <<planner_vars, caller, call, raised, raised_msg,
                   years_to_save, total_cost, printed, limits, mb_vars,
                   months_to_payoff, df>>

\* a call of cash_house from outside
CashHouse ==
    /\ pc = "idle"
    /\ planner = "ok"
    /\ \E current_rent \in Rents, property_price \in PropertyPrices :
          /\ call' = [NoCall EXCEPT !.op = "cash_house",
                         !.property_price = property_price,
                         !.current_rent = current_rent]
          /\ EnterCashHouse(current_rent, property_price)
    /\ caller' = "none"
    /\ ClearOut
    /\ UNCHANGED <<planner_vars, limits, mb_vars>>

\* one iteration of the while loop of cash_house
CashHouseLoop ==
    /\ pc = "cash_house"
    /\ StillSaving(amount_saved, target)
    /\ months_to_save < MaxMonths
    /\ amount_saved' = amount_saved + monthly_saving
    /\ months_to_save' = months_to_save + 1
    /\ UNCHANGED <<planner_vars, pc, caller, call, target, monthly_saving,
                   out_vars, limits, mb_vars, months_to_payoff, df>>

\* return months_to_save / 12 (ret counts twelfths of a year)
CashHouseReturn ==
    /\ pc = "cash_house"
    /\ caller = "none"
    /\ ~StillSaving(amount_saved, target)
    /\ ret' = months_to_save
    /\ pc' = "idle"
    /\ ClearLoop
    /\ UNCHANGED <<planner_vars, caller, call, raised, raised_msg,
                   years_to_save, total_cost, printed, limits, mb_vars,
                   months_to_payoff, df>>

\* any strategy that is not MORTGAGE is taken for CASH
StrategyBranchDefaultCash(strategy) ==
    IF strategy = MORTGAGE THEN "mortgage" ELSE "cash"

\* the branch house_timeline takes for a strategy
StrategyBranch(strategy) ==
    IF strategy = MORTGAGE THEN "mortgage"
    ELSE IF strategy = CASH THEN "cash"
    ELSE "unsupported"

\* house_timeline up to the savings horizon it asks for, or the ValueError
HouseTimeline ==
    /\ pc = "idle"
    /\ planner = "ok"
    /\ \E current_rent \in Rents, property_price \in PropertyPrices,
          strategy \in Strategies :
          /\ call' = [NoCall EXCEPT !.op = "house_timeline",
                         !.property_price = property_price,
                         !.current_rent = current_rent,
                         !.strategy = strategy]
          /\ CASE StrategyBranch(strategy) = "mortgage" ->
                    /\ EnterMortgagePreparation(property_price, 20)
                    /\ caller' = "house_timeline"
                    /\ ClearOut
               [] StrategyBranch(strategy) = "cash" ->
                    /\ EnterCashHouse(current_rent, property_price)
                    /\ caller' = "house_timeline"
                    /\ ClearOut
               [] OTHER ->
                    /\ raised' = "ValueError"
                    /\ raised_msg' = HouseStrategies
                    /\ ret' = 0
                    /\ years_to_save' = 0
                    /\ total_cost' = 0
                    /\ printed' = <<>>
                    /\ months_to_payoff' = 0
                    /\ df' = <<>>
                    /\ UNCHANGED <<pc, caller, loop_vars>>
    /\ UNCHANGED <<planner_vars, limits, mb_vars>>

\* the MORTGAGE branch once mortgage_preparation has returned: the argument
\* mortgage_calculator.MAXIMUM_INTEREST_RATE names no attribute of the module
HouseTimelineMortgage ==
    /\ pc = "mortgage_preparation"
    /\ caller = "house_timeline"
    /\ ~StillSaving(amount_saved, target)
    /\ years_to_save' = RoundHalfEven(months_to_save, 12)
    /\ raised' = "AttributeError"
    /\ pc' = "idle"
    /\ caller' = "none"
    /\ ClearLoop
    /\ UNCHANGED <<planner_vars, call, ret, raised_msg, total_cost, printed,
                   limits, mb_vars, months_to_payoff, df>>

\* the CASH branch once cash_house has returned; total_cost in cents
HouseTimelineCash ==
    /\ pc = "cash_house"
    /\ caller = "house_timeline"
    /\ ~StillSaving(amount_saved, target)
    /\ LET years == RoundHalfEven(months_to_save, 12)
       IN  /\ years_to_save' = years
           /\ total_cost' = CZK(call.property_price
                                  + (call.current_rent * 12) * years)
    /\ printed' = <<"timeline">>
    /\ pc' = "idle"
    /\ caller' = "none"
    /\ ClearLoop
    /\ UNCHANGED <<planner_vars, call, ret, raised, raised_msg, limits,
                   mb_vars, months_to_payoff, df>>

\* ------------------------------------------------------ MortgageCalculator
\* max_dti and max_ltv in tenths
BorrowingLimits ==
    ("up_to_35" :> [max_dti |-> 95, max_ltv |-> 9]) @@
    ("36_and_above" :> [max_dti |-> 85, max_ltv |-> 8])

\* age 35 falls in the first tier
max_debt_to_income_le35(p) ==
    IF p.age <= 35
    THEN MulDiv(net_annual_income(p), BorrowingLimits["up_to_35"].max_dti, 10)
    ELSE MulDiv(net_annual_income(p),
                BorrowingLimits["36_and_above"].max_dti, 10)

\* cents
max_debt_to_income(p) ==
    IF p.age < 35
    THEN MulDiv(net_annual_income(p), BorrowingLimits["up_to_35"].max_dti, 10)
    ELSE MulDiv(net_annual_income(p),
                BorrowingLimits["36_and_above"].max_dti, 10)

\* cents
max_loan_to_value(p, property_price) ==
    IF p.age < 35
    THEN MulDiv(CZK(property_price),
                BorrowingLimits["up_to_35"].max_ltv, 10)
    ELSE MulDiv(CZK(property_price),
                BorrowingLimits["36_and_above"].max_ltv, 10)

MaxDebtToIncome ==
    /\ pc = "idle"
    /\ call' = [NoCall EXCEPT !.op = "max_debt_to_income"]
    /\ ClearOut
    /\ limits' = [limits EXCEPT !.max_debt = max_debt_to_income(person)]
    /\ UNCHANGED <<planner_vars, pc, caller, loop_vars, mb_vars>>

MaxLoanToValue ==
    /\ pc = "idle"
    /\ \E property_price \in PropertyPrices :
          /\ call' = [NoCall EXCEPT !.op = "max_loan_to_value",
                         !.property_price = property_price]
          /\ limits' = [limits EXCEPT
                          !.max_loan_value =
                              max_loan_to_value(person, property_price),
                          !.property_price = property_price]
    /\ ClearOut
    /\ UNCHANGED <<planner_vars, pc, caller, loop_vars, mb_vars>>

\* inputs of mortgage_breakdown: prices and extra payments in CZK, the down
\* payment in hundredths (20 is the fraction 0.2, 2000 is 20 percent, 100 is
\* the fraction 1, a down payment of the whole price), the
\* annual interest rate in percent, the loan term in months (loan_term * 12)
MbPropertyPrices == {1000, 1500}
MbDownPayments == {20, 2000, 100}
InterestRates == {0, 600, 1200}
LoanTerms == 1 .. MaxLoanTerm
ExtraPayments == {0, 100, 300, 1000}

\* down_payment_percentage if it is > 1, else times 100; in hundredths
NormalizedDownPayment(down_payment_percentage) ==
    IF down_payment_percentage > 100
    THEN down_payment_percentage
    ELSE down_payment_percentage * 100

\* property_price - property_price * (down_payment_percentage / 100), cents
Principal(property_price, down_payment_percentage) ==
    CZK(property_price)
        - (CZK(property_price)
             * NormalizedDownPayment(down_payment_percentage)) \div 10000

\* (interest_rate / 12) / 100 as a fraction in lowest terms
MonthlyInterestRate(interest_rate) ==
    LET g == GCD(interest_rate, 1200)
    IN  [num |-> interest_rate \div g, den |-> 1200 \div g]

\* numerator / denominator of the annuity formula, in cents.  With
\* total_payments >= 1 the denominator (1 + r)^n - 1 is 0 exactly when the
\* rate is 0, and then the numerator is 0 as well: numpy answers 0/0 by nan.
AnnuityQuotient(p, r, n) ==
    LET pw == Pow(r.den + r.num, n)
        base == Pow(r.den, n)
    IN  IF pw - base = 0
        THEN NaN
        ELSE MulDiv(p, r.num * pw, r.den * (pw - base))

MonthlyPaymentValue(q, with_insurance) ==
    IF with_insurance THEN FMul(q, 1088, 1000) ELSE q

InsurancePaymentValue(q, with_insurance) ==
    IF with_insurance THEN FMul(q, 88, 1000) ELSE 0

\* the row the six lists start with
InitialRow(p) ==
    [month |-> 0, monthly_payment |-> 0, principal_balance |-> p,
     principal_payment |-> 0, interest_payment |-> 0, insurance_payment |-> 0]

\* the test that ends the loop early
Overshoot(balance, extra) == FLt(FSub(balance, extra), 0)

InterestPaymentValue(balance, r) == FMul(balance, r.num, r.den)

PrincipalPaymentValue(payment, insurance, interest, extra) ==
    LET base == FSub(FSub(payment, insurance), interest)
    IN  IF extra # 0 THEN FAdd(base, extra) ELSE base

\* the month index runs one ahead
MonthRowOffByOne(m, payment, insurance, balance, r, extra) ==
    LET interest == InterestPaymentValue(balance, r)
        principal_part == PrincipalPaymentValue(payment, insurance,
                                                interest, extra)
    IN  [month |-> m + 1,
         monthly_payment |-> FAdd(payment, extra),
         principal_balance |-> FSub(balance, principal_part),
         principal_payment |-> principal_part,
         interest_payment |-> interest,
         insurance_payment |-> insurance]

\* the principal payment is added to the balance instead of subtracted
MonthRowAddsPrincipal(m, payment, insurance, balance, r, extra) ==
    LET interest == InterestPaymentValue(balance, r)
        principal_part == PrincipalPaymentValue(payment, insurance,
                                                interest, extra)
    IN  [month |-> m,
         monthly_payment |-> FAdd(payment, extra),
         principal_balance |-> FAdd(balance, principal_part),
         principal_payment |-> principal_part,
         interest_payment |-> interest,
         insurance_payment |-> insurance]

\* the row appended for a month
MonthRow(m, payment, insurance, balance, r, extra) ==
    LET interest == InterestPaymentValue(balance, r)
        principal_part == PrincipalPaymentValue(payment, insurance,
                                                interest, extra)
    IN  [month |-> m,
         monthly_payment |-> FAdd(payment, extra),
         principal_balance |-> FSub(balance, principal_part),
         principal_payment |-> principal_part,
         interest_payment |-> interest,
         insurance_payment |-> insurance]

ClearMb ==
    /\ principal' = 0
    /\ total_payments' = 0
    /\ monthly_interest_rate' = NoRate
    /\ monthly_payment_value' = 0
    /\ insurance_payment_value' = 0
    /\ month' = 0
    /\ remaining_balance' = 0
    /\ schedule' = <<>>

\* mortgage_breakdown up to its loop
MortgageBreakdown ==
    /\ pc = "idle"
    /\ \E property_price \in MbPropertyPrices,
          down_payment_percentage \in MbDownPayments,
          interest_rate \in InterestRates,
          loan_term \in LoanTerms,
          with_insurance \in BOOLEAN,
          monthly_extra_payment \in ExtraPayments :
          LET p == Principal(property_price, down_payment_percentage)
              r == MonthlyInterestRate(interest_rate)
              q == AnnuityQuotient(p, r, loan_term)
          IN  /\ call' = [NoCall EXCEPT !.op = "mortgage_breakdown",
                             !.property_price = property_price,
                             !.down_payment_percentage =
                                 down_payment_percentage,
                             !.interest_rate = interest_rate,
                             !.loan_term = loan_term,
                             !.with_insurance = with_insurance,
                             !.monthly_extra_payment = monthly_extra_payment]
              /\ principal' = p
              /\ total_payments' = loan_term
              /\ monthly_interest_rate' = r
              /\ monthly_payment_value' = MonthlyPaymentValue(q, with_insurance)
              /\ insurance_payment_value' =
                     InsurancePaymentValue(q, with_insurance)
              /\ remaining_balance' = p
              /\ schedule' = <<InitialRow(p)>>
    /\ month' = 1
    /\ pc' = "mortgage_breakdown"
    /\ ClearOut
    /\ UNCHANGED <<planner_vars, caller, loop_vars, limits>>

\* months_to_payoff is left at the month before
PayoffMonthBehind(m) == m - 1

\* months_to_payoff = month, the first statement of every iteration
PayoffMonth(m) == m

\* one iteration of the for loop that appends a row
MortgageBreakdownLoop ==
    /\ pc = "mortgage_breakdown"
    /\ month <= total_payments
    /\ ~Overshoot(remaining_balance, CZK(call.monthly_extra_payment))
    /\ LET row == MonthRow(month, monthly_payment_value,
                           insurance_payment_value, remaining_balance,
                           monthly_interest_rate,
                           CZK(call.monthly_extra_payment))
       IN  /\ remaining_balance' = row.principal_balance
           /\ schedule' = Append(schedule, row)
    /\ months_to_payoff' = PayoffMonth(month)
    /\ month' = month + 1
    /\ UNCHANGED <<planner_vars, pc, caller, call, loop_vars, out_vars, limits,
                   principal, total_payments, monthly_interest_rate,
                   monthly_payment_value, insurance_payment_value, df>>

\* the iteration that breaks out of the loop, and the rest of the function
MortgageBreakdownBreak ==
    /\ pc = "mortgage_breakdown"
    /\ month <= total_payments
    /\ Overshoot(remaining_balance, CZK(call.monthly_extra_payment))
    /\ months_to_payoff' = PayoffMonth(month)
    /\ printed' = <<"last extra payment", "summary">>
    /\ df' = schedule
    /\ pc' = "idle"
    /\ ClearMb
    /\ UNCHANGED <<planner_vars, caller, call, loop_vars, ret, raised,
                   raised_msg, years_to_save, total_cost, limits>>

\* the loop ran out of months: the rest of the function
MortgageBreakdownReturn ==
    /\ pc = "mortgage_breakdown"
    /\ month > total_payments
    /\ printed' = <<"summary">>
    /\ df' = schedule
    /\ pc' = "idle"
    /\ ClearMb
    /\ UNCHANGED <<planner_vars, caller, call, loop_vars, ret, raised,
                   raised_msg, years_to_save, total_cost, limits,
                   months_to_payoff>>

\* ---------------------------------------------------------- specifications
\* the planner and the borrowing limits of every person
Next ==
    \/ Construct
    \/ MortgagePreparation
    \/ MortgagePreparationLoop
    \/ MortgagePreparationReturn
    \/ CashHouse
    \/ CashHouseLoop
    \/ CashHouseReturn
    \/ HouseTimeline
    \/ HouseTimelineMortgage
    \/ HouseTimelineCash
    \/ MaxDebtToIncome
    \/ MaxLoanToValue

Spec == Init /\ [][Next]_vars

\* a call that is running keeps running: the interpreter executes the next
\* iteration or the return of the function it is in
RunningCall ==
    \/ MortgagePreparationLoop
    \/ MortgagePreparationReturn
    \/ CashHouseLoop
    \/ CashHouseReturn
    \/ HouseTimelineMortgage
    \/ HouseTimelineCash

SpecLive == Spec /\ WF_vars(RunningCall)

\* the amortization engine; it reads nothing of the person
InitMortgage ==
    /\ Init
    /\ person = [age |-> 34, gross_salary |-> 0, yearly_bonus |-> 0,
                 savings |-> 0]

NextMortgage ==
    \/ MortgageBreakdown
    \/ MortgageBreakdownLoop
    \/ MortgageBreakdownBreak
    \/ MortgageBreakdownReturn

SpecMortgage == InitMortgage /\ [][NextMortgage]_vars

\* ------------------------------------------------------------------ claims
Returned(op) == pc = "idle" /\ call.op = op

\* C1: for every person with a gross salary in [0, 10,000,000] and a bonus
\* rate >= 0 the four rounded budget amounts sum to round(net_monthly_income),
\* so that the assertion of define_budget never fails at construction.
C1_BudgetSumNeverFails ==
    (person.gross_salary >= 0 /\ person.yearly_bonus >= 0)
        => (planner # "failed" /\ raised # "AssertionError")

\* C2: when a positive extra payment ends the schedule early, the balance of
\* the last row is >= 0 and below one extra payment, and no row of the
\* schedule has a negative balance.
EarlyPayoff ==
    /\ Returned("mortgage_breakdown")
    /\ call.monthly_extra_payment > 0
    /\ printed = <<"last extra payment", "summary">>

C2_FinalBalanceWithinExtra ==
    EarlyPayoff =>
        /\ FLe(0, df[Len(df)].principal_balance)
        /\ FLt(df[Len(df)].principal_balance,
               CZK(call.monthly_extra_payment))
        /\ \A k \in 1 .. Len(df) : FLe(0, df[k].principal_balance)

\* C3 as stated: the returned table has at most total_payments rows and its
\* k-th row has month index k.
C3_RowsAreMonthsFromOne ==
    Returned("mortgage_breakdown") =>
        /\ Len(df) <= call.loan_term
        /\ \A k \in 1 .. Len(df) : df[k].month = k

\* C3 amended: the returned table starts with a row of month index 0 that
\* holds the principal, followed by at most total_payments rows whose month
\* indices are 1, 2, ..., n without gaps.
C3_RowsAreMonthsFromZero ==
    Returned("mortgage_breakdown") =>
        /\ Len(df) >= 1
        /\ Len(df) <= call.loan_term + 1
        /\ df[1].principal_balance =
               Principal(call.property_price, call.down_payment_percentage)
        /\ \A k \in 1 .. Len(df) : df[k].month = k - 1

C3_Witness ==
    /\ Returned("mortgage_breakdown")
    /\ call.loan_term >= 3
    /\ Len(df) = call.loan_term + 1

\* C4: with an annual interest rate of 0 every row's payment is
\* principal / total_payments (plus the extra payment), every interest and
\* insurance component is 0, and no payment is the undefined 0/0.
C4_ZeroInterestSpecialCased ==
    (Returned("mortgage_breakdown") /\ call.interest_rate = 0) =>
        \A k \in 2 .. Len(df) :
            /\ FEq(df[k].monthly_payment,
                   RoundHalfEven(df[1].principal_balance, call.loan_term)
                       + CZK(call.monthly_extra_payment))
            /\ FEq(df[k].interest_payment, 0)
            /\ FEq(df[k].insurance_payment, 0)

C6_SmallestMonthsAtBudgetedSaving ==
    (Returned("mortgage_preparation") /\ raised = "none") =>
        LET start == CZK(person.savings) - emergency_fund
            saving == monthly_budget[SAVINGS_AND_INVESTMENTS]
            goal == (CZK(call.property_price)
                       * call.down_payment_percentage) \div 100
        IN  /\ start + ret * saving >= goal
            /\ \A n \in 0 .. (ret - 1) : start + n * saving < goal

\* C6 amended: mortgage_preparation returns n/12 for the smallest n >= 0 with
\* (savings - emergency_fund) + n * monthly_saving >= the down payment, where
\* monthly_saving is the savings fraction times the unrounded net monthly
\* income; it returns 0 when savings - emergency_fund covers the down payment.
C6_SmallestMonthsAtUnroundedSaving ==
    (Returned("mortgage_preparation") /\ raised = "none") =>
        LET start == CZK(person.savings) - emergency_fund
            fraction == IF person.gross_salary <= 110000 THEN 30 ELSE 35
            saving == (fraction * net_monthly_income(person)) \div 100
            goal == (CZK(call.property_price)
                       * call.down_payment_percentage) \div 100
        IN  /\ start + ret * saving >= goal
            /\ \A n \in 0 .. (ret - 1) : start + n * saving < goal
            /\ (start >= goal => ret = 0)

C6_Witness ==
    /\ Returned("mortgage_preparation")
    /\ raised = "none"
    /\ ret = 5
    /\ person.gross_salary = 100
    /\ monthly_budget[SAVINGS_AND_INVESTMENTS]
           # MonthlySaving(budgeting, person)

\* C7: house_timeline with the MORTGAGE strategy completes without an error
\* for every valid person, with years = round(mortgage_preparation(price, 0.2))
\* and the timeline with its total cost put out.
C7_MortgageTimelineCompletes ==
    (Returned("house_timeline") /\ call.strategy = MORTGAGE
        /\ person.gross_salary >= 0)
        => (raised = "none" /\ printed = <<"timeline">>)

\* C8: house_timeline with a strategy other than MORTGAGE or CASH raises the
\* error that lists the supported strategies, before any savings horizon or
\* amortization is computed, and puts out no result and no timeline.
C8_UnsupportedStrategyRaises ==
    (call.op = "house_timeline" /\ call.strategy \notin {MORTGAGE, CASH}) =>
        /\ pc = "idle"
        /\ raised = "ValueError"
        /\ raised_msg = <<"mortgage", "cash">>
        /\ months_to_save = 0 /\ amount_saved = 0 /\ target = 0
        /\ schedule = <<>> /\ df = <<>>
        /\ years_to_save = 0 /\ total_cost = 0 /\ ret = 0
        /\ printed = <<>>

C8_Witness ==
    /\ call.op = "house_timeline"
    /\ call.strategy = "INVALID"
    /\ raised = "ValueError"

C10_ComponentsWithinPayment ==
    Returned("mortgage_breakdown") =>
        \A k \in 1 .. Len(df) :
            LET parts == FAdd(FAdd(df[k].principal_payment,
                                   df[k].interest_payment),
                              df[k].insurance_payment)
            IN  /\ FLe(parts, df[k].monthly_payment)
                /\ (call.monthly_extra_payment = 0
                      => FEq(parts, df[k].monthly_payment))

\* C11 as stated: for a positive price, term and rate, any accepted down
\* payment and any extra payment >= 0, the remaining balance strictly
\* decreases from each row of the schedule to the next, the final row apart.
C11_BalanceStrictlyDecreases ==
    (Returned("mortgage_breakdown") /\ call.interest_rate > 0) =>
        \A k \in 1 .. (Len(df) - 2) :
            FLt(df[k + 1].principal_balance, df[k].principal_balance)

\* C11 amended: the same, for a down payment below the whole price, that is
\* for a positive principal.
C11_BalanceStrictlyDecreasesFromPositivePrincipal ==
    (Returned("mortgage_breakdown") /\ call.interest_rate > 0
        /\ NormalizedDownPayment(call.down_payment_percentage) < 10000) =>
        \A k \in 1 .. (Len(df) - 2) :
            FLt(df[k + 1].principal_balance, df[k].principal_balance)

C11_Witness ==
    /\ Returned("mortgage_breakdown")
    /\ call.interest_rate > 0
    /\ call.monthly_extra_payment > 0
    /\ NormalizedDownPayment(call.down_payment_percentage) < 10000
    /\ Len(df) >= 5

\* C12 as stated: when mortgage_breakdown has finished, the reported months to
\* payoff equal the month index of the last row of the schedule, after a full
\* term as well as after the early termination.
C12_PayoffIsLastRow ==
    Returned("mortgage_breakdown") => months_to_payoff = df[Len(df)].month

\* C12 amended: after a full term the reported months to payoff equal the
\* month index of the last row; after the early termination they equal that
\* index plus one, the month of the break, which has no row.
C12_PayoffIsLastRowOrBreakMonth ==
    Returned("mortgage_breakdown") =>
        IF printed = <<"last extra payment", "summary">>
        THEN months_to_payoff = df[Len(df)].month + 1
        ELSE /\ months_to_payoff = df[Len(df)].month
             /\ months_to_payoff = call.loan_term

C12_Witness ==
    /\ EarlyPayoff
    /\ Len(df) >= 3
    /\ months_to_payoff = Len(df)
    /\ months_to_payoff < call.loan_term

\* C13 as stated: cash_house returns n/12 for the smallest n >= 0 with
\* (savings - emergency_fund) + n * monthly_saving >= property_price, where
\* monthly_saving is the Savings amount of the monthly budget, plus the Housing
\* amount of the monthly budget less the rent when that is strictly positive.
C13_CashMonthsAtBudgetedSaving ==
    (Returned("cash_house") /\ raised = "none") =>
        LET start == CZK(person.savings) - emergency_fund
            left_over == monthly_budget[HOUSING] - CZK(call.current_rent)
            saving == IF left_over > 0
                      THEN monthly_budget[SAVINGS_AND_INVESTMENTS] + left_over
                      ELSE monthly_budget[SAVINGS_AND_INVESTMENTS]
            goal == CZK(call.property_price)
        IN  /\ start + ret * saving >= goal
            /\ \A n \in 0 .. (ret - 1) : start + n * saving < goal

\* C13 amended: the same, with the Savings and Housing amounts taken as the
\* budget fraction times the unrounded net monthly income instead of the
\* rounded amounts of the monthly budget.
C13_CashMonthsAtUnroundedSaving ==
    (Returned("cash_house") /\ raised = "none") =>
        LET start == CZK(person.savings) - emergency_fund
            income == net_monthly_income(person)
            fraction == IF person.gross_salary <= 110000 THEN 30 ELSE 35
            left_over == (30 * income) \div 100 - CZK(call.current_rent)
            saving == IF left_over > 0
                      THEN (fraction * income) \div 100 + left_over
                      ELSE (fraction * income) \div 100
            goal == CZK(call.property_price)
        IN  /\ start + ret * saving >= goal
            /\ \A n \in 0 .. (ret - 1) : start + n * saving < goal

C13_Witness ==
    /\ Returned("cash_house")
    /\ raised = "none"
    /\ person.gross_salary = 100
    /\ call.current_rent = 0
    /\ call.property_price = 7965
    /\ ret = 5

\* C14: for a person with gross salary >= 0 and bonus rate >= 0 the net
\* monthly income is at least the flat credit of 2570, the monthly saving of a
\* savings loop is strictly positive, and the loop of mortgage_preparation or
\* cash_house ends after finitely many iterations.
InSavingsLoop == pc \in {"mortgage_preparation", "cash_house"}

ValidIncome == person.gross_salary >= 0 /\ person.yearly_bonus >= 0

====
